---- MODULE Spec2Model ----
(***************************************************************************)
(* Order / cart / inventory core of the storefront: the tables products,   *)
(* cart, orders, order_items and payments, the per-user session, and the   *)
(* request handlers that read and write them.  Every database statement    *)
(* is one atomic step; a handler that issues several statements on behalf  *)
(* of one request is a worker that other requests interleave with.         *)
(***************************************************************************)
EXTENDS Integers, Sequences, FiniteSets, TLC

Users == {"u1", "u2"}
Products == {"p1", "p2"}
Workers == {"w1", "w2"}

\* Bounds of the model: the stock a product starts with, and the number of
\* orders after which no further checkout is started.
MaxStock == 2
MaxOrders == 1

\* The largest price of a product, and the number of transaction ids
\* Payment.generate_transaction_id draws from.
MaxPrice == 2
MaxTxn == 2

\* Derived bounds: the largest quantity put into a cart at once, the stock
\* above which no further stock is added, the order ids a caller may name,
\* the deltas of a direct stock adjustment.
MaxQty == MaxStock
StockCap == MaxStock + 1
OrderArgs == 1..(MaxOrders + 1)
Deltas == {-1, 1}
StockDeltas == (-StockCap)..StockCap
Quantities == (-1)..(MaxQty + 1)
ProductArgs == Products \cup {"none"}
Prices == 1..MaxPrice
TxnIds == 1..MaxTxn
Amounts == 0..MaxPrice

\* check_returnable.py: INTERVAL '7 days'.
ReturnWindowDays == 7

\* The clock stops two days after the return window.
MaxNow == ReturnWindowDays + 2

\* config.py ORDER_STATUSES: the whitelist of the admin status form.
ORDER_STATUSES == {"Pending", "Confirmed", "Processing", "Shipped", "Delivered", "Cancelled"}

\* config.py PAYMENT_METHODS.
PAYMENT_METHODS == {"COD", "Card", "UPI"}

VARIABLES
  stock,        \* products.stock
  active,       \* products.is_active
  price,        \* products.price
  cart,         \* cart rows: cart[u][p] is the quantity, 0 when there is no row
  cart_dup,     \* cart rows beside the first of their (user_id, product_id)
  orders,       \* orders rows, the id is the index
  order_items,  \* order_items rows of each order: order_items[o][p], 0 = no row
  amounts,      \* orders.total_amount and order_items.subtotal of each order
  payments,     \* payments rows
  session,      \* session['pending_order_id'] of each user, 0 when unset
  now,          \* CURRENT_TIMESTAMP, in days
  req           \* the request each worker is serving

vars == <<stock, active, price, cart, cart_dup, orders, order_items, amounts, payments, session, now, req>>

NoItems == [p \in Products |-> 0]

\* Payment.process_payment returned None.
NoPayment == [payment_method |-> "none", payment_status |-> "none"]

Idle == [pc |-> "idle", op |-> "none", user |-> "none", order |-> 0,
         items |-> NoItems, todo |-> {}, result |-> "none",
         subtotal |-> NoItems, total |-> 0,
         method |-> "none", payment |-> NoPayment,
         product |-> "none", seen |-> 0, delta |-> 0, quantity |-> 0,
         owner |-> "none"]

Lines(items) == {p \in Products : items[p] > 0}

OrderIds == 1..Len(orders)

(***************************************************************************)
(* Data access                                                             *)
(***************************************************************************)

\* Product.check_stock: SELECT stock ... WHERE id AND is_active; stock >= required.
check_stock_active(p, q) == active[p]

check_stock(p, q) == active[p] /\ stock[p] >= q

\* Product.update_stock: UPDATE ... SET stock = stock + d WHERE (stock + d) >= 0.
update_stock_nocheck(s, p, d) == [s EXCEPT ![p] = s[p] + d]

update_stock_skip(s, p, d) == s

update_stock_clamp(s, p, d) ==
  [s EXCEPT ![p] = IF s[p] + d >= 0 THEN s[p] + d ELSE 0]

update_stock(s, p, d) ==
  IF s[p] + d >= 0 THEN [s EXCEPT ![p] = s[p] + d] ELSE s

\* Product.update_stock's answer: the UPDATE matched a row.
update_stock_result(s, p, d) == s[p] + d >= 0

\* Cart.get_cart_items: the user's rows joined with the active products.
get_cart_items(u) == [p \in Products |-> IF active[p] THEN cart[u][p] ELSE 0]

\* The sum of f over the products in S.
RECURSIVE SumOver(_, _)
SumOver(f, S) ==
  IF S = {} THEN 0
  ELSE LET p == CHOOSE x \in S : TRUE IN f[p] + SumOver(f, S \ {p})

\* Cart.get_cart_items: the column (c.quantity * p.price) AS subtotal.
get_cart_subtotals(u) == [p \in Products |-> get_cart_items(u)[p] * price[p]]

\* Cart.get_cart_total: SUM(c.quantity * p.price) over the same join.
get_cart_total(u) == SumOver(get_cart_subtotals(u), Products)

\* Cart.add_item's checks: a quantity above 0, an active product, and the
\* quantity already in the cart plus the added one within the stock.
add_item_ok_nomerge(u, p, q) ==
  /\ q > 0
  /\ p \in Products
  /\ active[p]
  /\ q <= stock[p]

add_item_ok(u, p, q) ==
  /\ q > 0
  /\ p \in Products
  /\ active[p]
  /\ cart[u][p] + q <= stock[p]

\* DELETE FROM cart WHERE user_id = u (create_order 2c, Cart.clear_cart).
clear_cart_keep(c, u) == c

clear_cart(c, u) == [c EXCEPT ![u] = NoItems]

\* The same DELETE on the rows beside the first.
clear_cart_dup(rows, u) == {r \in rows : r.user_id # u}

\* Cart.delete_by_product: DELETE FROM cart WHERE product_id = p.
delete_by_product(c, p) == [u \in Users |-> [c[u] EXCEPT ![p] = 0]]

delete_dup_by_product(rows, p) == {r \in rows : r.product_id # p}

update_status(ords, o, s, t) ==
  [ords EXCEPT ![o].order_status = s, ![o].updated_at = t]

\* Order.cancel_order and Order.return_order: the row takes the new status.
Order_cancel_order(ords, o, t) ==
  [ords EXCEPT ![o].order_status = "Cancelled", ![o].updated_at = t]

Order_return_order(ords, o, t) ==
  [ords EXCEPT ![o].order_status = "Returned", ![o].updated_at = t]

\* Trigger trg_update_stock on the insert of order_items rows: the stock of
\* each line's product is reduced by the line's quantity; a line that would
\* take the stock below zero fails the statement, and with it the transaction.
trg_update_stock_ok(s, items) == \A p \in Products : s[p] - items[p] >= 0

trg_update_stock(s, items) == [p \in Products |-> s[p] - items[p]]

\* The orders row create_order inserts (2a).
NewOrder(u, t) == [user_id |-> u, order_status |-> "Pending", updated_at |-> t]

\* Its total_amount (the cart total read) and the subtotal of each order line
\* (the cart line read).
NewAmounts(total, subtotal) == [total_amount |-> total, subtotal |-> subtotal]

\* The ownership check of cancel_order and return_order.
is_owner_any(o, u) == TRUE

is_owner(o, u) == orders[o].user_id = u

\* The statuses cancel_order refuses.
not_cancellable(st) == st \in {"Delivered", "Cancelled"}

\* The stock finalize_order leaves: it was taken when the lines were inserted.
finalize_stock_decrement(s, o) == [p \in Products |-> s[p] - order_items[o][p]]

finalize_stock(s, o) == s

\* Payment.process_payment: Pending for COD, Success otherwise.
payment_status_of(m) == IF m = "COD" THEN "Pending" ELSE "Success"

\* The payments row Payment.process_payment writes for order o, method m,
\* amount a and generated transaction id t.
payment_row(o, m, a, t) ==
  [order_id |-> o,
   transaction_id |-> t,
   payment_method |-> m,
   amount |-> a,
   payment_status |-> payment_status_of(m)]

\* Payment.process_payment: INSERT INTO payments ... ON CONFLICT (order_id)
\* DO UPDATE SET ...: the row of the order is replaced.
insert_payment(rows, row) == rows \cup {row}

upsert_payment(rows, row) ==
  {r \in rows : r.order_id # row.order_id} \cup {row}

\* process_payment route: the payment is accepted when its status is Success,
\* or Pending with method COD.
is_success_strict(status, m) == status = "Success"

is_success(status, m) ==
  status = "Success" \/ (m = "COD" /\ status = "Pending")

(***************************************************************************)
(* Initial state: the products in stock, nothing in carts, no orders.      *)
(***************************************************************************)
Init ==
  /\ stock = [p \in Products |-> MaxStock]
  /\ active = [p \in Products |-> TRUE]
  /\ price = [p \in Products |-> 1]
  /\ cart = [u \in Users |-> NoItems]
  /\ cart_dup = {}
  /\ orders = <<>>
  /\ order_items = <<>>
  /\ amounts = <<>>
  /\ payments = {}
  /\ session = [u \in Users |-> 0]
  /\ now = 0
  /\ req = [w \in Workers |-> Idle]

Finish(w, r) == [req[w] EXCEPT !.pc = "done", !.todo = {}, !.result = r]

(***************************************************************************)
(* Cart.add_item                                                           *)
(***************************************************************************)
add_item(u, p, q) ==
  /\ q > 0
  /\ active[p]
  /\ cart[u][p] + q <= stock[p]
  /\ cart' = [cart EXCEPT ![u][p] = cart[u][p] + q]
  /\ UNCHANGED <<cart_dup, stock, active, price, orders, order_items, amounts, payments, session, now, req>>

\* The same call, whatever its arguments, with its answer kept for the caller.
call_add_item(w, u, p, q) ==
  /\ req[w].pc = "idle"
  /\ cart' = IF add_item_ok(u, p, q)
             THEN [cart EXCEPT ![u][p] = cart[u][p] + q]
             ELSE cart
  /\ cart_dup' = cart_dup
  /\ req' = [req EXCEPT ![w] =
               [Idle EXCEPT !.pc = "done", !.op = "add_item", !.user = u,
                            !.product = p, !.quantity = q,
                            !.result = IF add_item_ok(u, p, q) THEN "True" ELSE "False"]]
  /\ UNCHANGED <<stock, active, price, orders, order_items, amounts, payments, session, now>>

(***************************************************************************)
(* ProductService.update_stock called with a signed delta                  *)
(***************************************************************************)
adjust_stock(p, d) ==
  /\ stock[p] + d <= StockCap
  /\ stock' = update_stock(stock, p, d)
  /\ UNCHANGED <<active, price, cart, cart_dup, orders, order_items, amounts, payments, session, now, req>>

\* The same call, with its answer kept for the caller.
call_update_stock(w, p, d) ==
  /\ req[w].pc = "idle"
  /\ stock[p] + d <= StockCap
  /\ stock' = update_stock(stock, p, d)
  /\ req' = [req EXCEPT ![w] =
               [Idle EXCEPT !.pc = "done", !.op = "update_stock",
                            !.product = p, !.delta = d,
                            !.result = IF update_stock_result(stock, p, d)
                                       THEN "True" ELSE "False"]]
  /\ UNCHANGED <<active, price, cart, cart_dup, orders, order_items, amounts, payments, session, now>>

(***************************************************************************)
(* ProductService.delete_product: carts cleaned, product deactivated       *)
(***************************************************************************)
delete_product(p) ==
  /\ active[p]
  /\ cart' = delete_by_product(cart, p)
  /\ cart_dup' = delete_dup_by_product(cart_dup, p)
  /\ active' = [active EXCEPT ![p] = FALSE]
  /\ UNCHANGED <<stock, price, orders, order_items, amounts, payments, session, now, req>>

(***************************************************************************)
(* The admin's product edit: the form shows the product as it is, and its  *)
(* submission writes name, price, stock and is_active as they stand in the *)
(* form (ProductService.update_product, Product.update).                   *)
(***************************************************************************)
\* Product.update: UPDATE products SET price = pr, stock = v, is_active = a.
Product_update_stock(s, p, v) == [s EXCEPT ![p] = v]

\* The submission, were the order lines tied to the product's live price: the
\* subtotal and the total of every order holding the product are recomputed.
edit_product_submit_reprice(w, pr, v, a) ==
  /\ req[w].pc = "ed_form"
  /\ LET p == req[w].product
         sub(o) == [amounts[o].subtotal EXCEPT ![p] = order_items[o][p] * pr]
     IN /\ price' = [price EXCEPT ![p] = pr]
        /\ stock' = [stock EXCEPT ![p] = v]
        /\ active' = [active EXCEPT ![p] = a]
        /\ amounts' = [o \in DOMAIN amounts |->
                         NewAmounts(SumOver(sub(o), Products), sub(o))]
        /\ req' = [req EXCEPT ![w] = [req[w] EXCEPT !.pc = "done", !.result = "True"]]
  /\ UNCHANGED <<cart, cart_dup, orders, order_items, payments, session, now>>

\* GET /products/edit/<id>: the form is filled with the product's stock.
edit_product_form(w, p) ==
  /\ req[w].pc = "idle"
  /\ req' = [req EXCEPT ![w] = [Idle EXCEPT !.pc = "ed_form", !.op = "edit_product",
                                           !.product = p, !.seen = stock[p]]]
  /\ UNCHANGED <<stock, active, price, cart, cart_dup, orders, order_items, amounts, payments, session, now>>

\* POST /products, action = edit: the admin has set the price to pr, the stock
\* field to v and the active box to a.
edit_product_submit(w, pr, v, a) ==
  /\ req[w].pc = "ed_form"
  /\ pr \in Prices
  /\ v \in 0..StockCap
  /\ LET p == req[w].product
     IN /\ price' = [price EXCEPT ![p] = pr]
        /\ stock' = Product_update_stock(stock, p, v)
        /\ active' = [active EXCEPT ![p] = a]
        /\ req' = [req EXCEPT ![w] = [req[w] EXCEPT !.pc = "done", !.result = "True",
                                                    !.delta = v - req[w].seen]]
  /\ UNCHANGED <<cart, cart_dup, orders, order_items, amounts, payments, session, now>>

(***************************************************************************)
(* OrderService.create_order, called by the checkout route                 *)
(***************************************************************************)
\* The read phase without "if not cart_items: return None".
create_order_read_noempty(w, u) ==
  /\ req[w].pc = "idle"
  /\ Len(orders) < MaxOrders
  /\ LET items == get_cart_items(u)
         r == [Idle EXCEPT !.op = "create_order", !.user = u, !.items = items,
                           !.subtotal = get_cart_subtotals(u)]
     IN req' = [req EXCEPT ![w] =
                  [r EXCEPT !.pc = IF Lines(items) = {} THEN "co_total" ELSE "co_check",
                            !.todo = Lines(items)]]
  /\ UNCHANGED <<stock, active, price, cart, cart_dup, orders, order_items, amounts, payments, session, now>>

\* 1. read phase: Cart.get_cart_items; an empty cart returns None.
create_order_read(w, u) ==
  /\ req[w].pc = "idle"
  /\ Len(orders) < MaxOrders
  /\ LET items == get_cart_items(u)
         r == [Idle EXCEPT !.op = "create_order", !.user = u, !.items = items,
                           !.subtotal = get_cart_subtotals(u)]
     IN req' = [req EXCEPT ![w] =
                  IF Lines(items) = {}
                  THEN [r EXCEPT !.pc = "done", !.result = "None"]
                  ELSE [r EXCEPT !.pc = "co_check", !.todo = Lines(items)]]
  /\ UNCHANGED <<stock, active, price, cart, cart_dup, orders, order_items, amounts, payments, session, now>>

\* 1. read phase: ProductService.check_stock of one cart line.
create_order_check(w) ==
  /\ req[w].pc = "co_check"
  /\ \E p \in req[w].todo :
       req' = [req EXCEPT ![w] =
                 IF check_stock(p, req[w].items[p])
                 THEN [req[w] EXCEPT !.todo = req[w].todo \ {p},
                                     !.pc = IF req[w].todo = {p} THEN "co_total" ELSE "co_check"]
                 ELSE Finish(w, "None")]
  /\ UNCHANGED <<stock, active, price, cart, cart_dup, orders, order_items, amounts, payments, session, now>>

\* 1. read phase: Cart.get_cart_total, a second read of the cart and the prices.
create_order_total(w) ==
  /\ req[w].pc = "co_total"
  /\ req' = [req EXCEPT ![w] = [req[w] EXCEPT !.pc = "co_write",
                                              !.total = get_cart_total(req[w].user)]]
  /\ UNCHANGED <<stock, active, price, cart, cart_dup, orders, order_items, amounts, payments, session, now>>

\* The write phase without the transaction: each statement commits on its own,
\* a refused order line is skipped and the order is returned all the same.
create_order_write_autocommit(w) ==
  /\ req[w].pc = "co_write"
  /\ LET u == req[w].user
         items == req[w].items
         kept == [p \in Products |-> IF stock[p] - items[p] >= 0 THEN items[p] ELSE 0]
     IN /\ orders' = Append(orders, NewOrder(u, now))
        /\ order_items' = Append(order_items, kept)
        /\ amounts' = Append(amounts, NewAmounts(req[w].total, req[w].subtotal))
        /\ stock' = trg_update_stock(stock, kept)
        /\ cart' = clear_cart(cart, u)
        /\ cart_dup' = clear_cart_dup(cart_dup, u)
        /\ session' = [session EXCEPT ![u] = Len(orders) + 1]
        /\ req' = [req EXCEPT ![w] = Finish(w, "order")]
  /\ UNCHANGED <<active, price, payments, now>>

\* 2. write phase: one transaction inserts the orders row, the order_items rows
\* (the trigger takes the stock) and deletes the user's cart rows; a failing
\* statement rolls everything back and create_order returns None.  The route
\* keeps the id of the order it got in the session.
create_order_write(w) ==
  /\ req[w].pc = "co_write"
  /\ LET u == req[w].user
         items == req[w].items
     IN IF trg_update_stock_ok(stock, items)
        THEN /\ orders' = Append(orders, NewOrder(u, now))
             /\ order_items' = Append(order_items, items)
             /\ amounts' = Append(amounts, NewAmounts(req[w].total, req[w].subtotal))
             /\ stock' = trg_update_stock(stock, items)
             /\ cart' = clear_cart(cart, u)
             /\ cart_dup' = clear_cart_dup(cart_dup, u)
             /\ session' = [session EXCEPT ![u] = Len(orders) + 1]
             /\ req' = [req EXCEPT ![w] = Finish(w, "order")]
        ELSE /\ req' = [req EXCEPT ![w] = Finish(w, "None")]
             /\ UNCHANGED <<stock, cart, cart_dup, orders, order_items, amounts, session>>
  /\ UNCHANGED <<active, price, payments, now>>

\* 2. write phase: any other failure of the transaction (except Exception).
create_order_txn_failure(w) ==
  /\ req[w].pc = "co_write"
  /\ req' = [req EXCEPT ![w] = Finish(w, "None")]
  /\ UNCHANGED <<stock, active, price, cart, cart_dup, orders, order_items, amounts, payments, session, now>>

(***************************************************************************)
(* OrderService.cancel_order                                               *)
(***************************************************************************)
\* Order.get_by_id and the three checks on the row read.
cancel_order_read(w, u, o) ==
  /\ req[w].pc = "idle"
  /\ LET r == [Idle EXCEPT !.op = "cancel_order", !.user = u, !.order = o]
     IN req' = [req EXCEPT ![w] =
          IF o \notin OrderIds THEN [r EXCEPT !.pc = "done", !.result = "Order not found"]
          ELSE IF ~is_owner(o, u) THEN [r EXCEPT !.pc = "done", !.result = "Unauthorized"]
          ELSE IF not_cancellable(orders[o].order_status)
               THEN [r EXCEPT !.pc = "done", !.result = "Order cannot be cancelled"]
          ELSE [r EXCEPT !.pc = "ca_update"]]
  /\ UNCHANGED <<stock, active, price, cart, cart_dup, orders, order_items, amounts, payments, session, now>>

\* Order.cancel_order, then Order.get_order_items (the rows never change).
cancel_order_update(w) ==
  /\ req[w].pc = "ca_update"
  /\ LET o == req[w].order
     IN /\ orders' = Order_cancel_order(orders, o, now)
        /\ req' = [req EXCEPT ![w] = [req[w] EXCEPT !.pc = "ca_restore",
                                                    !.items = order_items[o],
                                                    !.todo = Lines(order_items[o])]]
  /\ UNCHANGED <<stock, active, price, cart, cart_dup, order_items, amounts, payments, session, now>>

\* The loop "for item in items: ProductService.update_stock(product, +quantity)",
\* one statement a step; then "Order cancelled successfully".
cancel_order_restore(w) ==
  /\ req[w].pc = "ca_restore"
  /\ \E p \in req[w].todo :
       /\ stock[p] + req[w].items[p] <= StockCap
       /\ stock' = update_stock(stock, p, req[w].items[p])
       /\ req' = [req EXCEPT ![w] =
                    IF req[w].todo = {p}
                    THEN [Finish(w, "Order cancelled successfully") EXCEPT !.items = NoItems]
                    ELSE [req[w] EXCEPT !.todo = req[w].todo \ {p}]]
  /\ UNCHANGED <<active, price, cart, cart_dup, orders, order_items, amounts, payments, session, now>>

\* A restore that fails and ends the request, the lines left unrestored.
cancel_order_restore_abort(w) ==
  /\ req[w].pc = "ca_restore"
  /\ req' = [req EXCEPT ![w] =
               [Finish(w, "Failed to cancel order") EXCEPT !.items = NoItems]]
  /\ UNCHANGED <<stock, active, price, cart, cart_dup, orders, order_items, amounts, payments, session, now>>

\* The UPDATE of one line fails: execute_query logs the error and returns
\* None, Product.update_stock returns False, and the loop, which does not look
\* at the answer, goes on to the next line.
cancel_order_restore_failure(w) ==
  /\ req[w].pc = "ca_restore"
  /\ \E p \in req[w].todo :
       req' = [req EXCEPT ![w] =
                 IF req[w].todo = {p}
                 THEN [Finish(w, "Order cancelled successfully") EXCEPT !.items = NoItems]
                 ELSE [req[w] EXCEPT !.todo = req[w].todo \ {p}]]
  /\ UNCHANGED <<stock, active, price, cart, cart_dup, orders, order_items, amounts, payments, session, now>>

(***************************************************************************)
(* OrderService.return_order                                               *)
(***************************************************************************)
\* Order.get_by_id selects o.* and the customer's name and email: the row it
\* returns has no is_returnable key, order.get('is_returnable') is None and
\* every call by the owner ends at "Order not eligible for return".
return_order(w, u, o) ==
  /\ req[w].pc = "idle"
  /\ LET r == [Idle EXCEPT !.op = "return_order", !.user = u, !.order = o, !.pc = "done"]
     IN req' = [req EXCEPT ![w] =
          IF o \notin OrderIds THEN [r EXCEPT !.result = "Order not found"]
          ELSE IF ~is_owner(o, u) THEN [r EXCEPT !.result = "Unauthorized"]
          ELSE [r EXCEPT !.result = "Order not eligible for return"]]
  /\ UNCHANGED <<stock, active, price, cart, cart_dup, orders, order_items, amounts, payments, session, now>>

\* test_return_model.py: Order.return_order called on an order directly.
test_return(o) ==
  /\ o \in OrderIds
  /\ orders' = Order_return_order(orders, o, now)
  /\ UNCHANGED <<stock, active, price, cart, cart_dup, order_items, amounts, payments, session, now, req>>

(***************************************************************************)
(* OrderService.finalize_order                                             *)
(***************************************************************************)
finalize_order(w, o) ==
  /\ req[w].pc = "idle"
  /\ LET r == [Idle EXCEPT !.op = "finalize_order", !.order = o, !.pc = "done"]
     IN IF o \in OrderIds
        THEN /\ orders' = update_status(orders, o, "Confirmed", now)
             /\ stock' = finalize_stock(stock, o)
             /\ req' = [req EXCEPT ![w] = [r EXCEPT !.result = "True"]]
        ELSE /\ UNCHANGED <<orders, stock>>
             /\ req' = [req EXCEPT ![w] = [r EXCEPT !.result = "False"]]
  /\ UNCHANGED <<active, price, cart, cart_dup, order_items, amounts, payments, session, now>>

(***************************************************************************)
(* admin_routes.update_order_status                                        *)
(***************************************************************************)
update_order_status(o, s) ==
  /\ s \in ORDER_STATUSES
  /\ o \in OrderIds
  /\ orders' = update_status(orders, o, s, now)
  /\ UNCHANGED <<stock, active, price, cart, cart_dup, order_items, amounts, payments, session, now, req>>

(***************************************************************************)
(* payment_routes.process_payment for the user's pending order: the        *)
(* payments row is upserted; when the payment is accepted the order is     *)
(* finalized, the cart cleared and the pending order dropped from the      *)
(* session; otherwise "Payment failed" is shown and nothing else changes.  *)
(***************************************************************************)
process_payment(w, u, m) ==
  /\ m \in PAYMENT_METHODS
  /\ req[w].pc = "idle"
  /\ session[u] \in OrderIds
  /\ LET o == session[u]
         r == [Idle EXCEPT !.op = "process_payment", !.user = u, !.order = o,
                           !.method = m, !.pc = "done"]
     IN \/ \E t \in TxnIds :
             LET row == payment_row(o, m, amounts[o].total_amount, t)
             IN /\ payments' = upsert_payment(payments, row)
                /\ IF is_success(row.payment_status, m)
                   THEN /\ orders' = update_status(orders, o, "Confirmed", now)
                        /\ stock' = finalize_stock(stock, o)
                        /\ cart' = clear_cart(cart, u)
                        /\ cart_dup' = clear_cart_dup(cart_dup, u)
                        /\ session' = [session EXCEPT ![u] = 0]
                        /\ req' = [req EXCEPT ![w] =
                                     [r EXCEPT !.payment = row, !.result = "success"]]
                   ELSE /\ UNCHANGED <<orders, stock, cart, cart_dup, session>>
                        /\ req' = [req EXCEPT ![w] =
                                     [r EXCEPT !.payment = row, !.result = "failed"]]
        \* Payment.process_payment caught an exception and returned None.
        \/ /\ req' = [req EXCEPT ![w] = [r EXCEPT !.result = "failed"]]
           /\ UNCHANGED <<payments, orders, stock, cart, cart_dup, session>>
  /\ UNCHANGED <<active, price, order_items, amounts, now>>

\* Payment.process_payment called for an order with any method and amount; the
\* row it returns is kept for the caller.
call_process_payment(w, o, m, a) ==
  /\ req[w].pc = "idle"
  /\ o \in OrderIds
  /\ m \in PAYMENT_METHODS
  /\ \E t \in TxnIds :
       /\ payments' = upsert_payment(payments, payment_row(o, m, a, t))
       /\ req' = [req EXCEPT ![w] =
                    [Idle EXCEPT !.pc = "done", !.op = "payment", !.order = o,
                                 !.method = m, !.total = a,
                                 !.payment = payment_row(o, m, a, t),
                                 !.result = "row"]]
  /\ UNCHANGED <<stock, active, price, cart, cart_dup, orders, order_items, amounts, session, now>>

(***************************************************************************)
(* Cart.add_item, a statement a step: the product's stock is read, then    *)
(* the user's row for the product, then that row is updated or a row is    *)
(* inserted.  The rows other requests write in between are not seen.       *)
(***************************************************************************)
\* The cart table's unique (user_id, product_id): an INSERT of a second row
\* for the pair is refused.
cart_unique_none(c, u, p) == FALSE

cart_unique_user_product(c, u, p) == c[u][p] # 0

\* "if quantity <= 0" and SELECT stock FROM products WHERE id AND is_active.
add_item_stock(w, u, p, q) ==
  /\ req[w].pc = "idle"
  /\ LET r == [Idle EXCEPT !.op = "add_item", !.user = u, !.product = p, !.quantity = q]
     IN req' = [req EXCEPT ![w] =
          IF q <= 0 \/ ~active[p]
          THEN [r EXCEPT !.pc = "done", !.result = "False"]
          ELSE [r EXCEPT !.pc = "ai_existing", !.seen = stock[p]]]
  /\ UNCHANGED <<stock, active, price, cart, cart_dup, orders, order_items, amounts, payments, session, now>>

\* SELECT id, quantity FROM cart WHERE user_id AND product_id, and the check of
\* the new quantity (total) against the stock read.
add_item_existing(w) ==
  /\ req[w].pc = "ai_existing"
  /\ LET existing == cart[req[w].user][req[w].product]
         new_quantity == existing + req[w].quantity
     IN req' = [req EXCEPT ![w] =
          IF new_quantity > req[w].seen
          THEN [Finish(w, "False") EXCEPT !.total = new_quantity]
          ELSE [req[w] EXCEPT !.pc = IF existing # 0 THEN "ai_update" ELSE "ai_insert",
                              !.total = new_quantity]]
  /\ UNCHANGED <<stock, active, price, cart, cart_dup, orders, order_items, amounts, payments, session, now>>

\* UPDATE cart SET quantity = new_quantity WHERE id = existing.id.
add_item_update(w) ==
  /\ req[w].pc = "ai_update"
  /\ LET u == req[w].user
         p == req[w].product
     IN cart' = IF cart[u][p] # 0 THEN [cart EXCEPT ![u][p] = req[w].total] ELSE cart
  /\ req' = [req EXCEPT ![w] = Finish(w, "True")]
  /\ UNCHANGED <<stock, active, price, cart_dup, orders, order_items, amounts, payments, session, now>>

\* INSERT INTO cart (user_id, product_id, quantity); a refused INSERT raises,
\* and add_item's "except Exception" returns False.
add_item_insert(w) ==
  /\ req[w].pc = "ai_insert"
  /\ LET u == req[w].user
         p == req[w].product
         row == [user_id |-> u, product_id |-> p, quantity |-> req[w].total]
     IN IF cart_unique_user_product(cart, u, p)
        THEN /\ req' = [req EXCEPT ![w] = Finish(w, "False")]
             /\ UNCHANGED <<cart, cart_dup>>
        ELSE /\ req' = [req EXCEPT ![w] = Finish(w, "True")]
             /\ IF cart[u][p] = 0
                THEN cart' = [cart EXCEPT ![u][p] = row.quantity] /\ UNCHANGED cart_dup
                ELSE cart_dup' = cart_dup \cup {row} /\ UNCHANGED cart
  /\ UNCHANGED <<stock, active, price, orders, order_items, amounts, payments, session, now>>

(***************************************************************************)
(* cart_routes.update_cart, remove_from_cart and clear_cart                *)
(***************************************************************************)
\* The id of a cart row: the row of user line[1] for product line[2].
CartIds == Users \X Products

\* Cart.update_quantity's checks: a quantity above 0, a cart row with that id
\* (joined with its product, active or not) and the quantity within the stock.
update_quantity_ok_nostock(line, q) ==
  /\ q > 0
  /\ cart[line[1]][line[2]] > 0

update_quantity_ok(line, q) ==
  /\ q > 0
  /\ cart[line[1]][line[2]] > 0
  /\ q <= stock[line[2]]

\* update_cart: the logged-in user u posts the id of a cart row and a quantity;
\* Cart.update_quantity(cart_id, quantity) updates the row with that id.
update_cart(w, u, line, q) ==
  /\ req[w].pc = "idle"
  /\ cart' = IF update_quantity_ok(line, q)
             THEN [cart EXCEPT ![line[1]][line[2]] = q]
             ELSE cart
  /\ req' = [req EXCEPT ![w] =
               [Idle EXCEPT !.pc = "done", !.op = "update_quantity", !.user = u,
                            !.owner = line[1], !.product = line[2], !.quantity = q,
                            !.result = IF update_quantity_ok(line, q)
                                       THEN "True" ELSE "False"]]
  /\ UNCHANGED <<stock, active, price, cart_dup, orders, order_items, amounts, payments, session, now>>

\* remove_from_cart: Cart.remove_item(cart_id) deletes the row with that id.
remove_from_cart(w, u, line) ==
  /\ req[w].pc = "idle"
  /\ cart' = [cart EXCEPT ![line[1]][line[2]] = 0]
  /\ req' = [req EXCEPT ![w] =
               [Idle EXCEPT !.pc = "done", !.op = "remove_item", !.user = u,
                            !.owner = line[1], !.product = line[2],
                            !.result = "True"]]
  /\ UNCHANGED <<stock, active, price, cart_dup, orders, order_items, amounts, payments, session, now>>

\* clear_cart: Cart.clear_cart(session['user_id']).
clear_cart_route(w, u) ==
  /\ req[w].pc = "idle"
  /\ cart' = clear_cart(cart, u)
  /\ cart_dup' = clear_cart_dup(cart_dup, u)
  /\ req' = [req EXCEPT ![w] =
               [Idle EXCEPT !.pc = "done", !.op = "clear_cart", !.user = u,
                            !.result = "True"]]
  /\ UNCHANGED <<stock, active, price, orders, order_items, amounts, payments, session, now>>

\* The response is sent and the worker is free again.
respond(w) ==
  /\ req[w].pc = "done"
  /\ req' = [req EXCEPT ![w] = Idle]
  /\ UNCHANGED <<stock, active, price, cart, cart_dup, orders, order_items, amounts, payments, session, now>>

\* A day passes.
tick ==
  /\ now < MaxNow
  /\ now' = now + 1
  /\ UNCHANGED <<stock, active, price, cart, cart_dup, orders, order_items, amounts, payments, session, req>>

(***************************************************************************)
(* The system: every handler, served by every worker.                      *)
(***************************************************************************)
Next ==
  \/ \E u \in Users, p \in Products, q \in 1..MaxQty : add_item(u, p, q)
  \/ \E w \in Workers, u \in Users, p \in ProductArgs, q \in Quantities :
       call_add_item(w, u, p, q)
  \/ \E p \in Products, d \in Deltas : adjust_stock(p, d)
  \/ \E w \in Workers, p \in Products, d \in StockDeltas : call_update_stock(w, p, d)
  \/ \E p \in Products : delete_product(p)
  \/ \E w \in Workers, p \in Products : edit_product_form(w, p)
  \/ \E w \in Workers, pr \in Prices, v \in 0..StockCap, a \in BOOLEAN :
       edit_product_submit(w, pr, v, a)
  \/ \E w \in Workers, u \in Users : create_order_read(w, u)
  \/ \E w \in Workers : create_order_check(w)
  \/ \E w \in Workers : create_order_total(w)
  \/ \E w \in Workers : create_order_write(w)
  \/ \E w \in Workers : create_order_txn_failure(w)
  \/ \E w \in Workers, u \in Users, o \in OrderArgs : cancel_order_read(w, u, o)
  \/ \E w \in Workers : cancel_order_update(w)
  \/ \E w \in Workers : cancel_order_restore(w)
  \/ \E w \in Workers : cancel_order_restore_failure(w)
  \/ \E w \in Workers, u \in Users, o \in OrderArgs : return_order(w, u, o)
  \/ \E o \in OrderArgs : test_return(o)
  \/ \E w \in Workers, o \in OrderArgs : finalize_order(w, o)
  \/ \E o \in OrderArgs, s \in ORDER_STATUSES : update_order_status(o, s)
  \/ \E w \in Workers, u \in Users, m \in PAYMENT_METHODS : process_payment(w, u, m)
  \/ \E w \in Workers, o \in OrderArgs, m \in PAYMENT_METHODS, a \in Amounts :
       call_process_payment(w, o, m, a)
  \/ \E w \in Workers, u \in Users, p \in Products, q \in Quantities :
       add_item_stock(w, u, p, q)
  \/ \E w \in Workers : add_item_existing(w)
  \/ \E w \in Workers : add_item_update(w)
  \/ \E w \in Workers : add_item_insert(w)
  \/ \E w \in Workers, u \in Users, line \in CartIds, q \in Quantities :
       update_cart(w, u, line, q)
  \/ \E w \in Workers, u \in Users, line \in CartIds : remove_from_cart(w, u, line)
  \/ \E w \in Workers, u \in Users : clear_cart_route(w, u)
  \/ \E w \in Workers : respond(w)
  \/ tick

Spec == Init /\ [][Next]_vars

(***************************************************************************)
(* Inventory and checkout: one customer fills a cart, checks out and       *)
(* cancels, while stock is adjusted and products are withdrawn between the *)
(* statements of the request.                                              *)
(***************************************************************************)
NextShop ==
  \/ \E p \in Products, q \in 1..MaxQty : add_item("u1", p, q)
  \/ \E p \in Products, d \in Deltas : adjust_stock(p, d)
  \/ \E p \in Products : delete_product(p)
  \/ create_order_read("w1", "u1")
  \/ create_order_check("w1")
  \/ create_order_total("w1")
  \/ create_order_write("w1")
  \/ create_order_txn_failure("w1")
  \/ \E u \in Users, o \in OrderArgs : cancel_order_read("w1", u, o)
  \/ cancel_order_update("w1")
  \/ cancel_order_restore("w1")
  \/ respond("w1")

SpecShop == Init /\ [][NextShop]_vars

(***************************************************************************)
(* Two customers check out at the same time: every product has one piece   *)
(* in stock and each cart holds at most one piece of it.                   *)
(***************************************************************************)
InitCheckout ==
  /\ stock = [p \in Products |-> 1]
  /\ active = [p \in Products |-> TRUE]
  /\ price = [p \in Products |-> 1]
  /\ cart \in [Users -> [Products -> 0..1]]
  /\ cart_dup = {}
  /\ orders = <<>>
  /\ order_items = <<>>
  /\ amounts = <<>>
  /\ payments = {}
  /\ session = [u \in Users |-> 0]
  /\ now = 0
  /\ req = [w \in Workers |-> Idle]

\* The cap on started checkouts does not apply: both requests are under way.
checkout_read(w, u) ==
  /\ req[w].pc = "idle"
  /\ LET items == get_cart_items(u)
         r == [Idle EXCEPT !.op = "create_order", !.user = u, !.items = items,
                           !.subtotal = get_cart_subtotals(u)]
     IN req' = [req EXCEPT ![w] =
                  IF Lines(items) = {}
                  THEN [r EXCEPT !.pc = "done", !.result = "None"]
                  ELSE [r EXCEPT !.pc = "co_check", !.todo = Lines(items)]]
  /\ UNCHANGED <<stock, active, price, cart, cart_dup, orders, order_items, amounts, payments, session, now>>

NextCheckout ==
  \/ checkout_read("w1", "u1")
  \/ checkout_read("w2", "u2")
  \/ \E w \in Workers : create_order_check(w)
  \/ \E w \in Workers : create_order_total(w)
  \/ \E w \in Workers : create_order_write(w)

SpecCheckout == InitCheckout /\ [][NextCheckout]_vars

(***************************************************************************)
(* The life of an order: one customer checks out, pays, cancels and asks   *)
(* for a return, the other customer names the same order, and the admin    *)
(* sets statuses.                                                          *)
(***************************************************************************)
NextLifecycle ==
  \/ \E p \in Products, q \in 1..MaxQty : add_item("u1", p, q)
  \/ create_order_read("w1", "u1")
  \/ create_order_check("w1")
  \/ create_order_total("w1")
  \/ create_order_write("w1")
  \/ \E u \in Users, o \in OrderArgs : cancel_order_read("w1", u, o)
  \/ cancel_order_update("w1")
  \/ cancel_order_restore("w1")
  \/ \E u \in Users, o \in OrderArgs : return_order("w1", u, o)
  \/ \E o \in OrderArgs : test_return(o)
  \/ \E o \in OrderArgs : finalize_order("w1", o)
  \/ \E o \in OrderArgs, s \in ORDER_STATUSES : update_order_status(o, s)
  \/ \E m \in PAYMENT_METHODS : process_payment("w1", "u1", m)
  \/ respond("w1")

SpecLifecycle == Init /\ [][NextLifecycle]_vars

(***************************************************************************)
(* Returns: an order is created, the admin moves it through its statuses,  *)
(* days pass, and customers ask for its return.                            *)
(***************************************************************************)
NextReturn ==
  \/ add_item("u1", "p1", 1)
  \/ create_order_read("w1", "u1")
  \/ create_order_check("w1")
  \/ create_order_total("w1")
  \/ create_order_write("w1")
  \/ \E o \in OrderArgs, s \in ORDER_STATUSES : update_order_status(o, s)
  \/ \E u \in Users, o \in OrderArgs : return_order("w1", u, o)
  \/ respond("w1")
  \/ tick

SpecReturn == Init /\ [][NextReturn]_vars

(***************************************************************************)
(* The back office at work during a checkout: the admin edits the price    *)
(* and the stock of a product while a customer fills the cart and checks   *)
(* out.                                                                    *)
(***************************************************************************)
NextBackOffice ==
  \/ \E p \in Products, q \in 1..MaxQty : add_item("u1", p, q)
  \/ edit_product_form("w2", "p1")
  \/ \E pr \in Prices, v \in 0..MaxStock : edit_product_submit("w2", pr, v, TRUE)
  \/ create_order_read("w1", "u1")
  \/ create_order_check("w1")
  \/ create_order_total("w1")
  \/ create_order_write("w1")
  \/ \E w \in Workers : respond(w)

SpecBackOffice == Init /\ [][NextBackOffice]_vars

(***************************************************************************)
(* The inventory ledger on its own: Product.update_stock called with every *)
(* delta on every stock.                                                   *)
(***************************************************************************)
InitStock ==
  /\ stock \in [Products -> 0..MaxStock]
  /\ active = [p \in Products |-> TRUE]
  /\ price = [p \in Products |-> 1]
  /\ cart = [u \in Users |-> NoItems]
  /\ cart_dup = {}
  /\ orders = <<>>
  /\ order_items = <<>>
  /\ amounts = <<>>
  /\ payments = {}
  /\ session = [u \in Users |-> 0]
  /\ now = 0
  /\ req = [w \in Workers |-> Idle]

NextStock ==
  \/ \E p \in Products, d \in StockDeltas : call_update_stock("w1", p, d)
  \/ respond("w1")

SpecStock == InitStock /\ [][NextStock]_vars

(***************************************************************************)
(* The cart store: customers add to their carts with every kind of         *)
(* argument while the stock moves and products are withdrawn.              *)
(***************************************************************************)
NextCart ==
  \/ \E u \in Users, p \in ProductArgs, q \in Quantities : call_add_item("w1", u, p, q)
  \/ \E p \in Products, d \in Deltas : adjust_stock(p, d)
  \/ \E p \in Products : delete_product(p)
  \/ respond("w1")

SpecCart == Init /\ [][NextCart]_vars

(***************************************************************************)
(* Payments: a customer checks out and pays through the payment route,     *)
(* and Payment.process_payment is called again for the same order.         *)
(***************************************************************************)
NextPayment ==
  \/ \E p \in Products, q \in 1..MaxQty : add_item("u1", p, q)
  \/ create_order_read("w1", "u1")
  \/ create_order_check("w1")
  \/ create_order_total("w1")
  \/ create_order_write("w1")
  \/ \E m \in PAYMENT_METHODS : process_payment("w1", "u1", m)
  \/ \E o \in OrderArgs, m \in PAYMENT_METHODS, a \in Amounts :
       call_process_payment("w1", o, m, a)
  \/ respond("w1")

SpecPayment == Init /\ [][NextPayment]_vars

(***************************************************************************)
(* Cart lines: two customers add to their carts, change and remove cart    *)
(* rows by id and clear their carts, while the stock is adjusted.          *)
(***************************************************************************)
NextCartLines ==
  \/ \E u \in Users, p \in Products, q \in 1..MaxQty : call_add_item("w1", u, p, q)
  \/ \E u \in Users, line \in CartIds, q \in Quantities : update_cart("w1", u, line, q)
  \/ \E u \in Users, line \in CartIds : remove_from_cart("w1", u, line)
  \/ \E u \in Users : clear_cart_route("w1", u)
  \/ \E p \in Products, d \in Deltas : adjust_stock(p, d)
  \/ respond("w1")

SpecCartLines == Init /\ [][NextCartLines]_vars

(***************************************************************************)
(* Concurrent cart writes: two requests of one customer add to the cart    *)
(* and change cart rows, their statements interleaved.                     *)
(***************************************************************************)
NextCartRace ==
  \/ \E w \in Workers, p \in Products, q \in Quantities : add_item_stock(w, "u1", p, q)
  \/ \E w \in Workers : add_item_existing(w)
  \/ \E w \in Workers : add_item_update(w)
  \/ \E w \in Workers : add_item_insert(w)
  \/ \E w \in Workers, p \in Products, q \in Quantities :
       update_cart(w, "u1", <<"u1", p>>, q)
  \/ \E w \in Workers : respond(w)

SpecCartRace == Init /\ [][NextCartRace]_vars

(***************************************************************************)
(* After a checkout: customer u1 has an order of one unit of each product  *)
(* at the initial price; the admin then edits the price, the stock and the *)
(* active flag of p1 while u1 fills, changes and empties the cart again.   *)
(***************************************************************************)
InitSnapshot ==
  /\ stock = [p \in Products |-> MaxStock - 1]
  /\ active = [p \in Products |-> TRUE]
  /\ price = [p \in Products |-> 1]
  /\ cart = [u \in Users |-> NoItems]
  /\ cart_dup = {}
  /\ orders = <<NewOrder("u1", 0)>>
  /\ order_items = <<[p \in Products |-> 1]>>
  /\ amounts = <<NewAmounts(Cardinality(Products), [p \in Products |-> 1])>>
  /\ payments = {}
  /\ session = [u \in Users |-> IF u = "u1" THEN 1 ELSE 0]
  /\ now = 0
  /\ req = [w \in Workers |-> Idle]

NextSnapshot ==
  \/ \E p \in Products, q \in 1..MaxQty : add_item("u1", p, q)
  \/ \E p \in Products, q \in Quantities : update_cart("w1", "u1", <<"u1", p>>, q)
  \/ \E p \in Products : remove_from_cart("w1", "u1", <<"u1", p>>)
  \/ clear_cart_route("w1", "u1")
  \/ edit_product_form("w2", "p1")
  \/ \E pr \in Prices, v \in 0..MaxStock, a \in BOOLEAN : edit_product_submit("w2", pr, v, a)
  \/ \E w \in Workers : respond(w)

SpecSnapshot == InitSnapshot /\ [][NextSnapshot]_vars

(***************************************************************************)
(* Cancellation with failing statements: one customer fills a cart, checks *)
(* out and cancels; any UPDATE of the restore loop may fail.               *)
(***************************************************************************)
NextRestore ==
  \/ \E p \in Products, q \in 1..MaxQty : add_item("u1", p, q)
  \/ create_order_read("w1", "u1")
  \/ create_order_check("w1")
  \/ create_order_total("w1")
  \/ create_order_write("w1")
  \/ \E o \in OrderArgs : cancel_order_read("w1", "u1", o)
  \/ cancel_order_update("w1")
  \/ cancel_order_restore("w1")
  \/ cancel_order_restore_failure("w1")
  \/ respond("w1")

SpecRestore == Init /\ [][NextRestore]_vars

(***************************************************************************)
(* After a checkout: two requests of customer u1 cancel the order, their   *)
(* statements interleaved.                                                 *)
(***************************************************************************)
NextCancelRace ==
  \/ \E w \in Workers, o \in OrderArgs : cancel_order_read(w, "u1", o)
  \/ \E w \in Workers : cancel_order_update(w)
  \/ \E w \in Workers : cancel_order_restore(w)
  \/ \E w \in Workers : respond(w)

SpecCancelRace == InitSnapshot /\ [][NextCancelRace]_vars

(***************************************************************************)
(* A double submission: customer u1 has a cart of at most one piece of     *)
(* each product, well within the stock, and two checkout requests of u1    *)
(* are under way at once.                                                  *)
(***************************************************************************)
InitDoubleCheckout ==
  /\ stock = [p \in Products |-> MaxStock]
  /\ active = [p \in Products |-> TRUE]
  /\ price = [p \in Products |-> 1]
  /\ cart \in {c \in [Users -> [Products -> 0..1]] : c["u2"] = NoItems}
  /\ cart_dup = {}
  /\ orders = <<>>
  /\ order_items = <<>>
  /\ amounts = <<>>
  /\ payments = {}
  /\ session = [u \in Users |-> 0]
  /\ now = 0
  /\ req = [w \in Workers |-> Idle]

NextDoubleCheckout ==
  \/ \E w \in Workers : checkout_read(w, "u1")
  \/ \E w \in Workers : create_order_check(w)
  \/ \E w \in Workers : create_order_total(w)
  \/ \E w \in Workers : create_order_write(w)

SpecDoubleCheckout == InitDoubleCheckout /\ [][NextDoubleCheckout]_vars

(***************************************************************************)
(* Properties                                                              *)
(***************************************************************************)

\* The step is one of worker w's, serving a call of op.
StepOf(w, op) == req'[w] # req[w] /\ (req[w].op = op \/ req'[w].op = op) /\ req'[w].pc # "idle"

\* The step is the one in which worker w takes up a call of op.
CallOf(w, op) == req[w].pc = "idle" /\ req'[w].op = op

\* The position of a status in Pending, Confirmed, Processing, Shipped, Delivered.
Rank(s) ==
  CASE s = "Pending" -> 0
    [] s = "Confirmed" -> 1
    [] s = "Processing" -> 2
    [] s = "Shipped" -> 3
    [] s = "Delivered" -> 4
    [] OTHER -> 5

\* C1: in every reachable state the stock of every product is >= 0, whatever
\* the interleaving of stock adjustments (positive and negative deltas),
\* order creations and cancellations.
C1_StockNonNegative == \A p \in Products : stock[p] >= 0

\* A product is out of stock while an order holding it has been cancelled.
C1_Witness ==
  \E p \in Products, o \in OrderIds :
    stock[p] = 0 /\ orders[o].order_status = "Cancelled" /\ order_items[o][p] > 0

\* C2: create_order is all-or-nothing.  The step in which it returns an order
\* appends one Pending orders row of the user, one order_items row per cart
\* line read, empties the user's cart and takes each line's quantity from the
\* stock; every other step of create_order, the ones returning None among
\* them, leaves orders, order_items, cart and stock as they are.
C2_CreateOrderAllOrNothing ==
  [][\A w \in Workers :
       StepOf(w, "create_order") =>
         IF req'[w].result = "order"
         THEN /\ orders' = Append(orders, [user_id |-> req[w].user,
                                           order_status |-> "Pending",
                                           updated_at |-> now])
              /\ order_items' = Append(order_items, req[w].items)
              /\ Lines(req[w].items) # {}
              /\ cart' = [cart EXCEPT ![req[w].user] = NoItems]
              /\ \A p \in Products : stock'[p] = stock[p] - req[w].items[p]
         ELSE UNCHANGED <<stock, cart, orders, order_items>>]_vars

\* create_order has returned an order made of two cart lines.
C2_Witness ==
  /\ req["w1"].op = "create_order"
  /\ req["w1"].result = "order"
  /\ Cardinality(Lines(req["w1"].items)) = 2
  /\ Len(orders) = 1

\* C3: two users check out at the same time, each cart holding one piece of a
\* product of which one piece is in stock: when both calls have returned,
\* exactly one returned an order and the product is out of stock.
C3_ExactlyOneCheckoutWins ==
  \A p \in Products :
    (/\ req["w1"].pc = "done"
     /\ req["w2"].pc = "done"
     /\ req["w1"].items[p] = 1
     /\ req["w2"].items[p] = 1)
    => /\ Cardinality({w \in Workers : req[w].result = "order"}) = 1
       /\ Cardinality({w \in Workers : req[w].result = "None"}) = 1
       /\ stock[p] = 0

\* Both calls have returned, both carts held the product, one call won.
C3_Witness ==
  /\ req["w1"].pc = "done"
  /\ req["w2"].pc = "done"
  /\ req["w1"].items["p1"] = 1
  /\ req["w2"].items["p1"] = 1
  /\ req["w2"].result = "order"
  /\ req["w1"].result = "None"

\* C4: a successful cancel_order sets the order's status to Cancelled and then
\* gives back to the stock of every product of the order exactly the order
\* line's quantity, once per line, whether or not finalize_order ran between
\* the creation and the cancellation; it answers "Order cancelled
\* successfully" with the last line restored.
C4_CancelRestoresStock ==
  [][\A w \in Workers :
       (StepOf(w, "cancel_order") /\ req[w].pc \in {"ca_update", "ca_restore"}) =>
         LET o == req[w].order
         IN IF req[w].pc = "ca_update"
            THEN /\ orders'[o].order_status = "Cancelled"
                 /\ req'[w].todo = Lines(order_items[o])
                 /\ req'[w].result = "none"
                 /\ stock' = stock
            ELSE \E p \in req[w].todo :
                   /\ order_items[o][p] > 0
                   /\ stock' = [stock EXCEPT ![p] = stock[p] + order_items[o][p]]
                   /\ req'[w].todo = req[w].todo \ {p}
                   /\ IF req[w].todo = {p}
                      THEN req'[w].result = "Order cancelled successfully"
                      ELSE req'[w].result = "none"]_vars

\* An order of two lines was paid for (finalize_order ran) and then cancelled:
\* the stock is back where it was before the order.
C4_Witness ==
  /\ req["w1"].op = "cancel_order"
  /\ req["w1"].result = "Order cancelled successfully"
  /\ req["w1"].order \in OrderIds
  /\ orders[req["w1"].order].order_status = "Cancelled"
  /\ \E r \in payments : r.order_id = req["w1"].order
  /\ Cardinality(Lines(order_items[req["w1"].order])) = 2
  /\ \A p \in Products : stock[p] = MaxStock

C6_ReturnWithinWindow ==
  [][\A w \in Workers :
       (/\ CallOf(w, "return_order")
        /\ req'[w].order \in OrderIds
        /\ orders[req'[w].order].user_id = req'[w].user) =>
         LET o == req'[w].order
         IN IF /\ orders[o].order_status = "Delivered"
               /\ now - orders[o].updated_at <= ReturnWindowDays
            THEN /\ req'[w].result # "Order not eligible for return"
                 /\ orders'[o].order_status = "Returned"
            ELSE /\ req'[w].result = "Order not eligible for return"
                 /\ UNCHANGED <<orders, stock>>]_vars

\* C7: cancel_order on an order whose status is Delivered, Cancelled or
\* Returned is refused at once and changes neither the order nor the stock.
C7_CancelRejectsClosedOrders ==
  [][\A w \in Workers :
       (/\ CallOf(w, "cancel_order")
        /\ req'[w].order \in OrderIds
        /\ orders[req'[w].order].order_status \in {"Delivered", "Cancelled", "Returned"}) =>
         /\ req'[w].pc = "done"
         /\ req'[w].result \in {"Order cannot be cancelled", "Unauthorized"}
         /\ UNCHANGED <<orders, stock>>]_vars

\* C8: cancel_order and return_order called with a user_id that is not the
\* order's answer "Unauthorized" at once and change neither the order nor the
\* stock.
C8_OnlyTheOwner ==
  [][\A w \in Workers :
       (/\ CallOf(w, "cancel_order") \/ CallOf(w, "return_order")
        /\ req'[w].order \in OrderIds
        /\ orders[req'[w].order].user_id # req'[w].user) =>
         /\ req'[w].pc = "done"
         /\ req'[w].result = "Unauthorized"
         /\ UNCHANGED <<orders, stock, order_items>>]_vars

\* Another user's call to cancel a Pending order has been refused.
C8_Witness ==
  /\ req["w1"].op = "cancel_order"
  /\ req["w1"].result = "Unauthorized"
  /\ req["w1"].order \in OrderIds
  /\ orders[req["w1"].order].user_id # req["w1"].user
  /\ orders[req["w1"].order].order_status = "Pending"
  /\ \E p \in Products : stock[p] < MaxStock

\* C9: Cancelled and Returned are terminal: no step changes the status of an
\* order that is Cancelled or Returned.
C9_TerminalStatuses ==
  [][\A o \in OrderIds :
       orders[o].order_status \in {"Cancelled", "Returned"}
         => orders'[o].order_status = orders[o].order_status]_vars

\* C10: along Pending, Confirmed, Processing, Shipped, Delivered the status of
\* an order never moves to an earlier one, whatever the sequence of
\* finalize_order and update_order_status calls.
C10_StatusMovesForward ==
  [][\A o \in OrderIds :
       (Rank(orders[o].order_status) <= 4 /\ Rank(orders'[o].order_status) <= 4)
         => Rank(orders'[o].order_status) >= Rank(orders[o].order_status)]_vars

\* The quantity of product p held by the orders that are neither Cancelled nor
\* Returned.
LiveQuantity(p) ==
  SumOver([o \in OrderIds |->
             IF orders[o].order_status \in {"Cancelled", "Returned"}
             THEN 0 ELSE order_items[o][p]],
          OrderIds)

\* C11: stock conservation: in every reachable state, for every product, the
\* stock taken from the initial stock equals the summed quantity of the order
\* lines of that product in orders that are neither Cancelled nor Returned.
C11_StockConservation ==
  \A p \in Products : MaxStock - stock[p] = LiveQuantity(p)

\* C12: the total_amount of every order equals the sum of the subtotals of its
\* order lines, also when a price or the cart changes between the read of the
\* cart lines and the read of the cart total.
C12_TotalIsSumOfSubtotals ==
  \A o \in OrderIds :
    amounts[o].total_amount = SumOver(amounts[o].subtotal, Products)

\* C13: every change of a product's stock is a signed delta applied to the
\* stock as it is, on condition that the result is >= 0: the admin's product
\* edit, which changed the stock field of the form by delta, adds delta to the
\* current stock like Product.update_stock does, so that a checkout between
\* the form and its submission keeps its decrement.
C13_StockWritesAreDeltas ==
  [][\A w \in Workers :
       (req[w].pc = "ed_form" /\ req'[w].pc = "done") =>
         stock' = update_stock(stock, req[w].product, req'[w].delta)]_vars

\* C14: Product.update_stock(product, delta) with stock + delta < 0 answers
\* False and leaves the stock as it is; with stock + delta >= 0 it answers True
\* and the product's stock becomes stock + delta, no other stock changing.
C14_UpdateStockContract ==
  [][\A w \in Workers :
       CallOf(w, "update_stock") =>
         LET p == req'[w].product
             d == req'[w].delta
         IN IF stock[p] + d < 0
            THEN req'[w].result = "False" /\ stock' = stock
            ELSE /\ req'[w].result = "True"
                 /\ stock' = [stock EXCEPT ![p] = stock[p] + d]]_vars

\* A delta that takes more than the stock has been refused, the stock that
\* was there is still there.
C14_Witness ==
  /\ req["w1"].op = "update_stock"
  /\ req["w1"].result = "False"
  /\ req["w1"].product \in Products
  /\ stock[req["w1"].product] > 0
  /\ stock[req["w1"].product] + req["w1"].delta < 0

\* C15: Cart.add_item answers False and leaves every cart as it is when the
\* quantity is <= 0, when the product is missing or inactive, or when the
\* quantity already in the cart plus the added one exceeds the product's
\* stock; otherwise it answers True and the line's quantity becomes the
\* existing quantity plus the added one, no other line changing.
C15_AddItemContract ==
  [][\A w \in Workers :
       CallOf(w, "add_item") =>
         LET u == req'[w].user
             p == req'[w].product
             q == req'[w].quantity
         IN IF \/ q <= 0
               \/ p \notin Products
               \/ ~active[p]
               \/ cart[u][p] + q > stock[p]
            THEN req'[w].result = "False" /\ cart' = cart
            ELSE /\ req'[w].result = "True"
                 /\ cart' = [cart EXCEPT ![u][p] = cart[u][p] + q]]_vars

\* A second add_item has been refused because, with what the cart already
\* holds, it would exceed the stock, which the added quantity alone does not.
C15_Witness ==
  /\ req["w1"].op = "add_item"
  /\ req["w1"].result = "False"
  /\ req["w1"].product \in Products
  /\ active[req["w1"].product]
  /\ req["w1"].quantity > 0
  /\ req["w1"].quantity <= stock[req["w1"].product]
  /\ cart[req["w1"].user][req["w1"].product] > 0
  /\ cart[req["w1"].user][req["w1"].product] + req["w1"].quantity > stock[req["w1"].product]

\* C16: create_order for a user whose cart has no lines returns None at once
\* and creates no orders row and no order line, and changes no stock.
C16_EmptyCartNoOrder ==
  [][\A w \in Workers :
       (CallOf(w, "create_order") /\ Lines(get_cart_items(req'[w].user)) = {}) =>
         /\ req'[w].pc = "done"
         /\ req'[w].result = "None"
         /\ UNCHANGED <<orders, order_items, amounts, stock, cart>>]_vars

\* create_order has returned None for an empty cart while the products are in
\* stock.
C16_Witness ==
  /\ req["w1"].op = "create_order"
  /\ req["w1"].pc = "done"
  /\ req["w1"].result = "None"
  /\ req["w1"].items = NoItems
  /\ cart[req["w1"].user] = NoItems
  /\ orders = <<>>
  /\ \A p \in Products : active[p] /\ stock[p] > 0

\* C17: create_order returns None without creating an orders row or an order
\* line and without changing cart or stock whenever a cart line's quantity
\* exceeds its product's stock, the other lines being satisfiable or not: a
\* line found short by check_stock ends the call, and the call returns an
\* order only if the stock covers every line when the lines are inserted.
C17_InsufficientStockNoOrder ==
  [][\A w \in Workers :
       StepOf(w, "create_order") =>
         /\ (req[w].pc = "co_check" /\ req'[w].pc # "done")
              => \A p \in req[w].todo \ req'[w].todo : stock[p] >= req[w].items[p]
         /\ (req[w].pc = "co_check" /\ req'[w].pc = "done")
              => /\ req'[w].result = "None"
                 /\ \E p \in req[w].todo : ~active[p] \/ stock[p] < req[w].items[p]
         /\ (req[w].pc = "co_write"
             /\ \E p \in Products : req[w].items[p] > stock[p])
              => req'[w].result = "None"
         /\ req'[w].result # "order"
              => UNCHANGED <<orders, order_items, amounts, cart, stock>>]_vars

\* create_order has returned None for a cart of two lines of which one exceeds
\* the stock and the other does not; no order exists and the cart is as it was.
C17_Witness ==
  /\ req["w1"].op = "create_order"
  /\ req["w1"].pc = "done"
  /\ req["w1"].result = "None"
  /\ req["w1"].items["p1"] > stock["p1"]
  /\ req["w1"].items["p2"] > 0
  /\ req["w1"].items["p2"] <= stock["p2"]
  /\ active["p1"] /\ active["p2"]
  /\ cart["u1"] = req["w1"].items
  /\ orders = <<>>

\* C18: in the payment route a payment whose status is Success, or Pending
\* with method COD, makes the order Confirmed; any other outcome, a Failed
\* payment among them, is not accepted: the order keeps its status, it is not
\* finalized, and the stock taken at order creation stays taken.
C18_PaymentDecidesConfirmation ==
  [][\A w \in Workers :
       CallOf(w, "process_payment") =>
         LET o == req'[w].order
             m == req'[w].method
             pay == req'[w].payment
         IN /\ \A mm \in PAYMENT_METHODS : ~is_success("Failed", mm)
            /\ stock' = stock
            /\ IF /\ pay # NoPayment
                  /\ \/ pay.payment_status = "Success"
                     \/ (m = "COD" /\ pay.payment_status = "Pending")
               THEN /\ req'[w].result = "success"
                    /\ orders'[o].order_status = "Confirmed"
               ELSE /\ req'[w].result = "failed"
                    /\ UNCHANGED <<orders, cart, session>>]_vars

\* A COD payment, Pending, has been accepted: the order is Confirmed and the
\* stock it took is still taken.
C18_Witness ==
  /\ req["w1"].op = "process_payment"
  /\ req["w1"].result = "success"
  /\ req["w1"].method = "COD"
  /\ req["w1"].payment.payment_status = "Pending"
  /\ orders[req["w1"].order].order_status = "Confirmed"
  /\ \A p \in Products : stock[p] = MaxStock - order_items[req["w1"].order][p]
  /\ Lines(order_items[req["w1"].order]) # {}

\* The statuses Payment.process_payment can give a payment of method m.
PaymentOutcomes(m) == {payment_status_of(m)}

\* C19: a payments row written by Payment.process_payment is Pending when
\* its method is COD; when the method is Card or UPI it is Success or Failed,
\* and both can be the outcome of the call.
C19_PaymentStatuses ==
  \A r \in payments :
    IF r.payment_method = "COD"
    THEN r.payment_status = "Pending"
    ELSE /\ r.payment_status \in {"Success", "Failed"}
         /\ {"Success", "Failed"} \subseteq PaymentOutcomes(r.payment_method)

\* At most one payments row per order.
OnePaymentPerOrder(rows) ==
  \A r1 \in rows, r2 \in rows : r1.order_id = r2.order_id => r1 = r2

\* C20: after every Payment.process_payment call there is at most one
\* payments row per order, and the row of the call's order holds the method
\* and the amount of this call, its status and its transaction id; the rows
\* of the other orders are as before.
C20_OnePaymentRowPerOrder ==
  [][\A w \in Workers :
       CallOf(w, "payment") =>
         LET o == req'[w].order
             row == req'[w].payment
         IN /\ OnePaymentPerOrder(payments')
            /\ {r \in payments' : r.order_id = o} = {row}
            /\ row.payment_method = req'[w].method
            /\ row.amount = req'[w].total
            /\ row.payment_status = payment_status_of(req'[w].method)
            /\ row.transaction_id \in TxnIds
            /\ {r \in payments' : r.order_id # o} = {r \in payments : r.order_id # o}]_vars

\* The order was paid through the route, and a later call for the same order,
\* with another amount, has replaced its row.
C20_Witness ==
  /\ req["w1"].op = "payment"
  /\ req["w1"].order \in OrderIds
  /\ orders[req["w1"].order].order_status = "Confirmed"
  /\ req["w1"].total # amounts[req["w1"].order].total_amount
  /\ payments = {req["w1"].payment}

\* The operations a customer performs on a cart.
CartOps == {"add_item", "update_quantity", "remove_item", "clear_cart", "create_order"}

\* C21: no cart operation performed by one user (add, update quantity, remove
\* item, clear, checkout) changes or deletes a cart line of another user: a
\* step of a request of user u leaves the cart of every other user as it was.
C21_CartIsolation ==
  [][\A w \in Workers, v \in Users :
       ((\E op \in CartOps : StepOf(w, op)) /\ req'[w].user # v)
         => cart'[v] = cart[v]]_vars

\* The cart rows of user u for product p.
CartRows(u, p) ==
  (IF cart[u][p] # 0 THEN 1 ELSE 0)
    + Cardinality({r \in cart_dup : r.user_id = u /\ r.product_id = p})

C24_OrderLinesAreSnapshots ==
  [][\A o \in OrderIds :
       /\ order_items'[o] = order_items[o]
       /\ amounts'[o] = amounts[o]]_vars

\* The price of p1 was changed and p1 withdrawn after the order, the customer
\* has a new cart line, and the order line of p1 still has the old subtotal.
C24_Witness ==
  /\ price["p1"] = MaxPrice
  /\ ~active["p1"]
  /\ cart["u1"]["p2"] > 0
  /\ order_items[1]["p1"] = 1
  /\ amounts[1].subtotal["p1"] = 1
  /\ amounts[1].total_amount = Cardinality(Products)

\* C25: Cart.update_quantity fails and leaves the cart line unchanged when the
\* new quantity is <= 0, exceeds the product's current stock, or the cart line
\* does not exist; otherwise the line's quantity becomes exactly the new
\* quantity.
C25_UpdateQuantityContract ==
  [][\A w \in Workers :
       CallOf(w, "update_quantity") =>
         LET u == req'[w].owner
             p == req'[w].product
             q == req'[w].quantity
         IN IF q <= 0 \/ q > stock[p] \/ cart[u][p] = 0
            THEN req'[w].result = "False" /\ cart' = cart
            ELSE /\ req'[w].result = "True"
                 /\ cart' = [cart EXCEPT ![u][p] = q]]_vars

\* A call set a cart line to the whole stock of its product.
C25_Witness ==
  \E w \in Workers :
    /\ req[w].op = "update_quantity" /\ req[w].pc = "done" /\ req[w].result = "True"
    /\ req[w].quantity = MaxStock
    /\ cart[req[w].owner][req[w].product] = req[w].quantity
    /\ stock[req[w].product] = req[w].quantity

\* C26: during cancel_order a failure to restore the stock of one order line
\* neither prevents the restoration of the remaining lines nor undoes the
\* order's status change: after a restore step that left the stock as it was,
\* the order is still Cancelled, and the request is at the next line of the
\* loop or, after the last line, answers that the order was cancelled.
C26_RestoreFailureIsIgnored ==
  [][\A w \in Workers :
       (req[w].pc = "ca_restore" /\ req'[w] # req[w] /\ stock' = stock) =>
         /\ orders' = orders
         /\ orders[req[w].order].order_status = "Cancelled"
         /\ \E p \in req[w].todo : req'[w].todo = req[w].todo \ {p}
         /\ IF req'[w].todo = {}
            THEN /\ req'[w].pc = "done"
                 /\ req'[w].result = "Order cancelled successfully"
            ELSE req'[w].pc = "ca_restore"]_vars

\* An order of both products was cancelled; the restore of p1 failed, and p2
\* has its stock back.
C26_Witness ==
  /\ req["w1"].op = "cancel_order" /\ req["w1"].pc = "done"
  /\ req["w1"].result = "Order cancelled successfully"
  /\ req["w1"].order \in OrderIds
  /\ orders[req["w1"].order].order_status = "Cancelled"
  /\ order_items[req["w1"].order]["p1"] > 0
  /\ order_items[req["w1"].order]["p2"] > 0
  /\ stock["p1"] = MaxStock - order_items[req["w1"].order]["p1"]
  /\ stock["p2"] = MaxStock

\* C27: stock is restored at most once per order: under any interleaving of
\* cancel_order calls on the same order, each order line's quantity is added
\* back to its product's stock at most once.  The order took its lines from a
\* stock of MaxStock, so no product's stock ever exceeds MaxStock.
C27_RestoredAtMostOnce ==
  \A o \in OrderIds, p \in Products :
    stock[p] - (MaxStock - order_items[o][p]) <= order_items[o][p]

\* C28: a cart is converted into at most one order: when the same user issues
\* two concurrent create_order calls on one cart, at most one of them returns
\* an order, and the stock of each cart product is decremented by the cart
\* quantity at most once.
C28_OneOrderPerCart ==
  /\ Cardinality({w \in Workers : /\ req[w].op = "create_order"
                                  /\ req[w].pc = "done"
                                  /\ req[w].result = "order"}) <= 1
  /\ \A w \in Workers, p \in Products :
       (req[w].op = "create_order" /\ req[w].pc = "done" /\ req[w].result = "order")
         => stock[p] >= MaxStock - req[w].items[p]

\* C29: every cart line that a successful create_order deletes is recorded as
\* an order line of the created order: a line added to the user's cart between
\* create_order's read phase and its write phase, or a line whose product is
\* inactive, is never deleted without being part of the order.
C29_DeletedLinesAreOrdered ==
  [][\A w \in Workers :
       (req[w].pc = "co_write" /\ req'[w].result = "order"
          /\ Len(orders') = Len(orders) + 1) =>
         \A p \in Products :
           (cart[req[w].user][p] > 0 /\ cart'[req[w].user][p] = 0)
             => order_items'[Len(orders')][p] > 0]_vars

\* C30: processing the payment of an already created order leaves the user's
\* cart unchanged: cart lines added after create_order cleared the cart and
\* before the payment step are still in the cart after a successful payment.
C30_PaymentKeepsCart ==
  [][\A w \in Workers : CallOf(w, "process_payment") => cart' = cart]_vars

====
